---- MODULE Spec2Model ----
(***************************************************************************)
(* hip-rs: the status-code-to-error translation layer (core/result.rs),    *)
(* the device query API built on it (runtime/init.rs) and the defensive    *)
(* initialize (runtime/safe.rs), as a state machine.                       *)
(*                                                                         *)
(* The state is the native runtime the API calls into (variable runtime)   *)
(* and the record of the most recent API call (variable last): its         *)
(* arguments, the output slot as prepared, the raw calls made, what the    *)
(* raw call left in the slot, the status code, and the Result returned.    *)
(*                                                                         *)
(* The native runtime is not part of the repository.  Two specifications   *)
(* share the API actions and differ in the runtime they run against:       *)
(*   Spec     the runtime behaves as spec.md and the doc comments say;     *)
(*   SpecRaw  the runtime is bound only by the C ABI: any status code, and *)
(*            anything written inside the slot or buffer it was handed.    *)
(***************************************************************************)
EXTENDS Integers, Sequences, FiniteSets

VARIABLES runtime, last

vars == <<runtime, last>>

(***************************************************************************)
(* Bounds of the model.                                                    *)
(***************************************************************************)
\* The runtime has 0..MaxDevices devices.
MaxDevices == 2

\* Host threads calling the API.
NThreads == 2

\* Bytes CStr::from_ptr may read past an unterminated buffer before it
\* meets a NUL.
MaxOverread == 2

Threads == 1..NThreads

\* Device identifiers callers pass: negative, every identifier a runtime of
\* MaxDevices devices knows, and the tests' out-of-range 99.
DeviceIds == {-1} \cup (0..(MaxDevices - 1)) \cup {99}

\* Status codes (u32): success, the documented table, and codes outside it.
StatusCodes == {0, 1, 2, 3, 4, 101, 301, 600, 801, 5, 100, 999}

\* The codes a raw call other than hipInit reports in SpecRaw.
RawCodes == {0, 3, 999}

\* The nonzero codes the documented runtime picks from where the
\* documentation says only that the call fails.
FailureCodes == {1, 101, 999}

(***************************************************************************)
(* core/result.rs                                                          *)
(***************************************************************************)
from_raw_swapped(error) ==
    CASE error = 1 -> "InvalidValue"
      [] error = 2 -> "MemoryAllocation"
      [] error = 3 -> "NotInitialized"
      [] error = 4 -> "Deinitialized"
      [] error = 101 -> "InvalidValue"
      [] error = 301 -> "FileNotFound"
      [] error = 600 -> "NotReady"
      [] error = 801 -> "NotSupported"
      [] OTHER -> "Unknown"

from_raw_partial(error) ==
    CASE error = 1 -> "InvalidValue"
      [] error = 2 -> "MemoryAllocation"
      [] error = 3 -> "NotInitialized"
      [] error = 4 -> "Deinitialized"
      [] error = 101 -> "InvalidDevice"
      [] error = 301 -> "FileNotFound"
      [] error = 600 -> "NotSupported"
      [] error = 801 -> "NotSupported"
      [] OTHER -> "Unknown"

\* HipErrorKind::from_raw
from_raw(error) ==
    CASE error = 1 -> "InvalidValue"
      [] error = 2 -> "MemoryAllocation"
      [] error = 3 -> "NotInitialized"
      [] error = 4 -> "Deinitialized"
      [] error = 101 -> "InvalidDevice"
      [] error = 301 -> "FileNotFound"
      [] error = 600 -> "NotReady"
      [] error = 801 -> "NotSupported"
      [] OTHER -> "Unknown"

\* HipError::new
HipError_new(code) ==
    [kind |-> from_raw(code), code |-> code]

\* enum HipErrorKind
HipErrorKind ==
    {"InvalidValue", "MemoryAllocation", "NotInitialized", "Deinitialized",
     "InvalidDevice", "FileNotFound", "NotReady", "NotSupported", "Unknown"}

as_u32_positional(kind) ==
    CASE kind = "InvalidValue" -> 0
      [] kind = "MemoryAllocation" -> 1
      [] kind = "NotInitialized" -> 2
      [] kind = "Deinitialized" -> 3
      [] kind = "InvalidDevice" -> 4
      [] kind = "FileNotFound" -> 5
      [] kind = "NotReady" -> 6
      [] kind = "NotSupported" -> 7
      [] kind = "Unknown" -> 8

\* `kind as u32`: the discriminant of a HipErrorKind.
as_u32(kind) ==
    CASE kind = "InvalidValue" -> 1
      [] kind = "MemoryAllocation" -> 2
      [] kind = "NotInitialized" -> 3
      [] kind = "Deinitialized" -> 4
      [] kind = "InvalidDevice" -> 101
      [] kind = "FileNotFound" -> 301
      [] kind = "NotReady" -> 600
      [] kind = "NotSupported" -> 801
      [] kind = "Unknown" -> 999

\* HipError::from_kind
HipError_from_kind(kind) ==
    [kind |-> kind, code |-> as_u32(kind)]

\* std::result::Result<T, HipError>
Ok(value) ==
    [ok |-> TRUE, value |-> value]

Err(error) ==
    [ok |-> FALSE, error |-> error]

to_result_keeps_value(value, code) ==
    IF code = 0 \/ code = 999 THEN Ok(value) ELSE Err(HipError_new(code))

to_result_kind_only(value, code) ==
    IF code = 0 THEN Ok(value) ELSE Err([kind |-> from_raw(code), code |-> 1])

\* impl<T> HipResult for (T, u32): to_result
to_result(value, code) ==
    IF code = 0 THEN Ok(value) ELSE Err(HipError_new(code))

(***************************************************************************)
(* crate::types (not among the sources; from its uses in runtime/init.rs)  *)
(***************************************************************************)
\* Device::new(id); Device::id() and the field id read it back.
Device_new(id) ==
    [id |-> id]

Devices == {Device_new(i) : i \in DeviceIds}

(***************************************************************************)
(* The native runtime (external).  Each raw entry point is given the slot  *)
(* it writes through and yields the set of outcomes [code, out, rt]: the   *)
(* status code, the slot after the call and the runtime's next state.      *)
(***************************************************************************)
ValidDevice(id) ==
    id \in 0..(runtime.ndev - 1)

\* A failing call of the documented runtime leaves the slot as it found it.
Fails(codes, slot) ==
    {[code |-> c, out |-> slot, rt |-> runtime] : c \in codes}

Succeeds(out, rt) ==
    {[code |-> 0, out |-> out, rt |-> rt]}

\* A runtime bound only by the ABI: any code, the slot untouched or holding
\* any of the values `written`.
Arbitrary(codes, slot, written) ==
    {[code |-> c, out |-> o, rt |-> runtime] : c \in codes, o \in {slot} \cup written}

Documented == runtime.mode = "documented"

hipInit(flags) ==
    {[code |-> c, out |-> <<>>, rt |-> runtime] : c \in StatusCodes}

hipGetDeviceCount(count) ==
    IF Documented
    THEN Succeeds(runtime.ndev, runtime)
    ELSE Arbitrary(RawCodes, count, {1, 2})

hipGetDevice(t, device_id) ==
    IF Documented
    THEN IF runtime.ndev = 0
         THEN Fails({100}, device_id)
         ELSE Succeeds(runtime.active[t], runtime)
    ELSE Arbitrary(RawCodes, device_id, {0, 1})

hipSetDevice(t, id) ==
    IF Documented
    THEN IF ValidDevice(id)
         THEN Succeeds(<<>>, [runtime EXCEPT !.active[t] = id])
         ELSE Fails({101}, <<>>)
    ELSE Arbitrary(RawCodes, <<>>, {})

\* The runtime's data about device i (documented runtime).
CapabilityOf(i) ==
    <<9, i>>

TotalMemOf(i) ==
    1024 * (i + 1)

NameOf(i) ==
    [k \in 1..(i + 1) |-> 65 + i]

\* Signed bytes wrap at 8 bits.
Wrap8(x) ==
    ((x + 128) % 256) - 128

\* Sixteen consecutive signed bytes starting at `first`: no two positions
\* hold the same byte, so a reordering shows.
UuidFrom(first) ==
    [k \in 1..16 |-> Wrap8(first + k - 1)]

UuidOf(i) ==
    UuidFrom(-8 + 16 * i)

\* The sixteen arrays that between them hold every signed byte once.
UuidSamples ==
    {UuidFrom(-128 + 16 * j) : j \in 0..15}

\* "0000:0i:00.0": the PCI bus address of device i as ASCII.
PciText(i) ==
    <<48, 48, 48, 48, 58, 48, 48 + i, 58, 48, 48, 46, 48>>

\* The bytes of a C string in a buffer: up to the first NUL.
CStrOf(buffer) ==
    LET nuls == {k \in 1..Len(buffer) : buffer[k] = 0}
    IN IF nuls = {}
       THEN buffer
       ELSE SubSeq(buffer, 1, (CHOOSE k \in nuls : \A j \in nuls : k <= j) - 1)

\* `text` copied to the front of `buffer`, the rest of the buffer kept.
WriteAt(buffer, text) ==
    [k \in 1..Len(buffer) |-> IF k <= Len(text) THEN text[k] ELSE buffer[k]]

hipDeviceComputeCapability(slot, id) ==
    IF Documented
    THEN IF ValidDevice(id)
         THEN Succeeds(CapabilityOf(id), runtime)
         ELSE Fails({101}, slot)
    ELSE Arbitrary(RawCodes, slot, {<<9, 0>>, <<9, slot[2]>>})

hipDeviceTotalMem(size, id) ==
    IF Documented
    THEN IF ValidDevice(id)
         THEN Succeeds(TotalMemOf(id), runtime)
         ELSE Fails({101}, size)
    ELSE Arbitrary(RawCodes, size, {1024})

\* Encoded versions a runtime may report: every (major, minor, patch) of
\* the sample sets whose encoding fits an i32, and negative values.
VersionMajors == {0, 9, 2147}

VersionMinors == {0, 2, 483, 999}

VersionPatches == {0, 5, 647, 999}

FitsI32(major, minor, patch) ==
    major < 2147 \/ (major = 2147 /\ minor * 1000 + patch <= 483647)

Encode(major, minor, patch) ==
    major * 1000000 + minor * 1000 + patch

RawVersions ==
    {Encode(v[1], v[2], v[3]) :
        v \in {w \in VersionMajors \X VersionMinors \X VersionPatches :
                  FitsI32(w[1], w[2], w[3])}}
    \cup {-2, -9002005, -2147483647}

hipRuntimeGetVersion(version) ==
    IF Documented
    THEN Succeeds(Encode(9, 2, 5), runtime)
    ELSE Arbitrary({0, 3}, version, RawVersions)

\* What a runtime may copy into a name buffer of `len` bytes: w bytes, all
\* ASCII 'A' or all 0xFF, for w up to len.
NameWrites(len) ==
    {[k \in 1..w |-> ch] : w \in {0, 1, len - 1, len} \cap (0..len), ch \in {65, -1}}

hipDeviceGetName(buffer, len, id) ==
    IF Documented
    THEN IF ValidDevice(id)
         THEN Succeeds(WriteAt(buffer, NameOf(id) \o <<0>>), runtime)
         ELSE Fails({101}, buffer)
    ELSE {[code |-> c, out |-> WriteAt(buffer, w), rt |-> runtime] :
             c \in RawCodes, w \in NameWrites(len)}

hipDeviceGetUuid(bytes, id) ==
    IF Documented
    THEN IF ValidDevice(id)
         THEN Succeeds(UuidOf(id), runtime)
         ELSE Fails({101}, bytes)
    ELSE Arbitrary({0, 3}, bytes, UuidSamples)

hipDeviceGetP2PAttribute(value, attr, src, dst) ==
    IF Documented
    THEN IF ~ValidDevice(src) \/ ~ValidDevice(dst)
         THEN Fails({101}, value)
         ELSE IF src = dst
              THEN Fails(FailureCodes, value)
              ELSE Succeeds(IF attr = 0 THEN src + dst ELSE 1, runtime)
    ELSE Arbitrary(RawCodes, value, {1})

hipDeviceGetPCIBusId(buffer, len, id) ==
    IF Documented
    THEN IF ~ValidDevice(id)
         THEN Fails({101}, buffer)
         ELSE IF len < Len(PciText(id)) + 1
              THEN Fails({1}, buffer)
              ELSE Succeeds(WriteAt(buffer, PciText(id) \o <<0>>), runtime)
    ELSE Arbitrary(RawCodes, buffer, {WriteAt(buffer, PciText(1) \o <<0>>)})

hipDeviceGetByPCIBusId(device_id, buffer) ==
    IF Documented
    THEN LET found == {i \in 0..(runtime.ndev - 1) : PciText(i) = CStrOf(buffer)}
         IN IF found = {}
            THEN Fails({1}, device_id)
            ELSE {[code |-> 0, out |-> i, rt |-> runtime] : i \in found}
    ELSE Arbitrary(RawCodes, device_id, {0, 1})

(***************************************************************************)
(* runtime/init.rs: the device query API.  Every action is one call of one *)
(* function, start to return.                                              *)
(***************************************************************************)
\* One raw call: the entry point and the arguments passed by value.
Call(fn, args) ==
    [fn |-> fn, args |-> args]

\* What a call held and gave back: its arguments, the output slot as it
\* prepared it, the raw calls it made, the slot as the raw call left it,
\* and its return value.  The operation's name comes first, so that two
\* frames of different operations differ there.
Frame(op, args, prepared, calls, slot, result) ==
    <<op, [args |-> args, prepared |-> prepared, calls |-> calls,
           slot |-> slot, result |-> result]>>

\* The record of a call that returned.  thread: the calling thread where the
\* call touches the per-thread active device, 0 elsewhere.  code: the status
\* code of its raw call.  ub: the call read memory outside the buffer it
\* owns.  fault: the raw call raised a fault instead of returning a code.
Returned(op, t, args, prepared, calls, raw, result) ==
    [op |-> op, thread |-> t, code |-> raw.code, status |-> "returned",
     ub |-> FALSE, fault |-> FALSE, frame |-> Frame(op, args, prepared, calls, raw.out, result)]

\* A call that never returned has no return value.
NoResult ==
    [returned |-> FALSE]

\* The record of a call that never returned: the process died inside it.
Aborted(op, t, args, prepared, calls, raw) ==
    [op |-> op, thread |-> t, code |-> raw.code, status |-> "aborted",
     ub |-> TRUE, fault |-> FALSE, frame |-> Frame(op, args, prepared, calls, raw.out, NoResult)]

\* The parts of the last call's frame.
Args == last.frame[2].args

Prepared == last.frame[2].prepared

Calls == last.frame[2].calls

Slot == last.frame[2].slot

Result == last.frame[2].result

Alive == last.status # "aborted"

initialize_ret(code) ==
    to_result(<<>>, code)

initialize ==
    /\ Alive
    /\ \E raw \in hipInit(0) :
         /\ last' = Returned("initialize", 0, <<>>, <<>>,
                             <<Call("hipInit", <<0>>)>>, raw,
                             initialize_ret(raw.code))
         /\ runtime' = raw.rt

get_device_count_ret(count, code) ==
    to_result(count, code)

get_device_count ==
    /\ Alive
    /\ LET count == 0
       IN \E raw \in hipGetDeviceCount(count) :
            /\ last' = Returned("get_device_count", 0, <<>>, count,
                                <<Call("hipGetDeviceCount", <<>>)>>, raw,
                                get_device_count_ret(raw.out, raw.code))
            /\ runtime' = raw.rt

get_device_ret_shared(device_id, code) ==
    to_result(Device_new(runtime.active[1]), code)

get_device_ret(device_id, code) ==
    to_result(Device_new(device_id), code)

get_device(t) ==
    /\ Alive
    /\ LET device_id == -1
       IN \E raw \in hipGetDevice(t, device_id) :
            /\ last' = Returned("get_device", t, <<>>, device_id,
                                <<Call("hipGetDevice", <<>>)>>, raw,
                                get_device_ret(raw.out, raw.code))
            /\ runtime' = raw.rt

set_device_ret_current(device, code) ==
    to_result(Device_new(0), code)

set_device_ret(device, code) ==
    to_result(device, code)

set_device(t, device) ==
    /\ Alive
    /\ \E raw \in hipSetDevice(t, device.id) :
         /\ last' = Returned("set_device", t, <<device>>, <<>>,
                             <<Call("hipSetDevice", <<device.id>>)>>, raw,
                             set_device_ret(device, raw.code))
         /\ runtime' = raw.rt

\* `x as u64` of an i32: sign extension.  A u64 is held as [n, wraps],
\* standing for n + wraps * 2^64, so that a negative i32 keeps its value.
as_u64(x) ==
    [n |-> x, wraps |-> IF x < 0 THEN 1 ELSE 0]

\* semver::Version::new
Version_new(major, minor, patch) ==
    [major |-> major, minor |-> minor, patch |-> patch]

device_compute_capability_ret(major, minor, code) ==
    LET version == Version_new(as_u64(major), as_u64(minor), as_u64(0))
    IN to_result(version, code)

device_compute_capability(device) ==
    /\ Alive
    /\ LET major == -1
           minor == -1
       IN \E raw \in hipDeviceComputeCapability(<<major, minor>>, device.id) :
            /\ last' = Returned("device_compute_capability", 0, <<device>>,
                                <<major, minor>>,
                                <<Call("hipDeviceComputeCapability", <<device.id>>)>>,
                                raw,
                                device_compute_capability_ret(raw.out[1], raw.out[2],
                                                              raw.code))
            /\ runtime' = raw.rt

device_total_mem_ret(size, code) ==
    to_result(size, code)

device_total_mem(device) ==
    /\ Alive
    /\ LET size == 0
       IN \E raw \in hipDeviceTotalMem(size, device.id) :
            /\ last' = Returned("device_total_mem", 0, <<device>>, size,
                                <<Call("hipDeviceTotalMem", <<device.id>>)>>, raw,
                                device_total_mem_ret(raw.out, raw.code))
            /\ runtime' = raw.rt

\* i32 `/` and `%`: the quotient truncates toward zero and the remainder
\* takes the sign of the dividend (divisor > 0).
i32_div(a, b) ==
    IF a >= 0 THEN a \div b ELSE -((-a) \div b)

i32_rem(a, b) ==
    a - b * i32_div(a, b)

decode_hip_version_minor_unreduced(version) ==
    IF version = -1
    THEN Version_new(as_u64(0), as_u64(0), as_u64(0))
    ELSE LET major == i32_div(version, 1000000)
             minor == i32_div(version, 1000)
             patch == i32_rem(version, 1000)
         IN Version_new(as_u64(major), as_u64(minor), as_u64(patch))

decode_hip_version(version) ==
    IF version = -1
    THEN Version_new(as_u64(0), as_u64(0), as_u64(0))
    ELSE LET major == i32_div(version, 1000000)
             minor == i32_rem(i32_div(version, 1000), 1000)
             patch == i32_rem(version, 1000)
         IN Version_new(as_u64(major), as_u64(minor), as_u64(patch))

runtime_get_version_ret(version, code) ==
    to_result(decode_hip_version(version), code)

runtime_get_version ==
    /\ Alive
    /\ LET version == -1
       IN \E raw \in hipRuntimeGetVersion(version) :
            /\ last' = Returned("runtime_get_version", 0, <<>>, version,
                                <<Call("hipRuntimeGetVersion", <<>>)>>, raw,
                                runtime_get_version_ret(raw.out, raw.code))
            /\ runtime' = raw.rt

\* const buffer_size in get_device_name
buffer_size == 64

\* vec![0i8; n]
Zeros(n) ==
    [k \in 1..n |-> 0]

\* What reading past the end of a buffer can meet before a NUL: up to
\* MaxOverread bytes of whatever lies there.
Overreads ==
    {[k \in 1..n |-> 90] : n \in 0..MaxOverread}

\* CStr::from_ptr(buffer.as_ptr()): scans from the pointer to the first NUL,
\* with no knowledge of the buffer's length.  With a NUL inside the buffer it
\* yields the bytes before it.  Without one the scan leaves the buffer, which
\* is undefined behaviour: it meets a NUL in the memory that follows, or the
\* process dies on an unmapped page.
CStr_from_ptr(buffer) ==
    IF \E k \in 1..Len(buffer) : buffer[k] = 0
    THEN {[status |-> "read", past_end |-> FALSE, bytes |-> CStrOf(buffer)]}
    ELSE {[status |-> "read", past_end |-> TRUE, bytes |-> buffer \o over] :
             over \in Overreads}
         \cup {[status |-> "aborted", past_end |-> TRUE, bytes |-> <<>>]}

\* CStr::to_string_lossy().into_owned(): the String as its characters.  An
\* ASCII byte is the character itself; a byte that no UTF-8 sequence can
\* hold becomes U+FFFD (65533).  (The names of this model take their
\* non-ASCII bytes from 0xFF alone, which is such a byte wherever it stands.)
to_string_lossy(bytes) ==
    [k \in 1..Len(bytes) |-> IF bytes[k] >= 0 THEN bytes[k] ELSE 65533]

\* String::len(): the length in UTF-8 bytes, one per ASCII character and
\* three for U+FFFD.
String_len(string) ==
    Len(string) + 2 * Cardinality({k \in 1..Len(string) : string[k] = 65533})

get_device_name_ret(c_str, code) ==
    to_result(to_string_lossy(c_str), code)

get_device_name(device) ==
    /\ Alive
    /\ LET buffer == Zeros(buffer_size)
           calls == <<Call("hipDeviceGetName", <<Len(buffer), device.id>>)>>
       IN \E raw \in hipDeviceGetName(buffer, Len(buffer), device.id) :
            \E c_str \in CStr_from_ptr(raw.out) :
              /\ last' = IF c_str.status = "aborted"
                         THEN Aborted("get_device_name", 0, <<device>>, buffer,
                                      calls, raw)
                         ELSE [Returned("get_device_name", 0, <<device>>, buffer,
                                        calls, raw,
                                        get_device_name_ret(c_str.bytes, raw.code))
                               EXCEPT !.ub = c_str.past_end]
              /\ runtime' = raw.rt

get_device_uuid_bytes_ret(bytes, code) ==
    to_result(bytes, code)

as_u8_clamped(b) ==
    IF b >= 0 THEN b ELSE 0

\* `b as u8` of an i8: the same eight bits read unsigned.
as_u8(b) ==
    IF b >= 0 THEN b ELSE b + 256

\* uuid::Uuid::from_bytes
Uuid_from_bytes(bytes) ==
    [bytes |-> bytes]

\* get_device_uuid: Result::map over get_device_uuid_bytes.
get_device_uuid_ret(bytes, code) ==
    LET r == get_device_uuid_bytes_ret(bytes, code)
    IN IF r.ok
       THEN Ok(Uuid_from_bytes([k \in 1..16 |-> as_u8(r.value[k])]))
       ELSE r

get_device_uuid(device) ==
    /\ Alive
    /\ LET hip_bytes == Zeros(16)
       IN \E raw \in hipDeviceGetUuid(hip_bytes, device.id) :
            /\ last' = Returned("get_device_uuid", 0, <<device>>, hip_bytes,
                                <<Call("hipDeviceGetUuid", <<device.id>>)>>, raw,
                                get_device_uuid_ret(raw.out, raw.code))
            /\ runtime' = raw.rt

\* DeviceP2PAttribute and its conversion to the raw attribute (attr.into()).
P2PAttributes ==
    {"PerformanceRank", "AccessSupported", "NativeAtomicSupported",
     "HipArrayAccessSupported"}

DeviceP2PAttribute_into(attr) ==
    CASE attr = "PerformanceRank" -> 0
      [] attr = "AccessSupported" -> 1
      [] attr = "NativeAtomicSupported" -> 2
      [] attr = "HipArrayAccessSupported" -> 3

get_device_p2p_attribute_ret(value, code) ==
    to_result(value, code)

get_device_p2p_attribute(attr, src_device, dst_device) ==
    /\ Alive
    /\ LET value == -1
           raw_attr == DeviceP2PAttribute_into(attr)
       IN \E raw \in hipDeviceGetP2PAttribute(value, raw_attr, src_device.id,
                                                dst_device.id) :
            /\ last' = Returned("get_device_p2p_attribute", 0,
                                <<attr, src_device, dst_device>>, value,
                                <<Call("hipDeviceGetP2PAttribute",
                                       <<raw_attr, src_device.id, dst_device.id>>)>>,
                                raw,
                                get_device_p2p_attribute_ret(raw.out, raw.code))
            /\ runtime' = raw.rt

\* PCIBusId: a buffer of PCIBusIdLen bytes; new() zeroes it, len() is its
\* capacity, as_mut_ptr() hands the buffer to the raw call.
PCIBusIdLen == 13

PCIBusId_new ==
    Zeros(PCIBusIdLen)

get_device_pci_bus_id_ret_fresh(pci_bus_id, code) ==
    to_result(PCIBusId_new, code)

get_device_pci_bus_id_ret(pci_bus_id, code) ==
    to_result(pci_bus_id, code)

get_device_pci_bus_id(device) ==
    /\ Alive
    /\ LET pci_bus_id == PCIBusId_new
           calls == <<Call("hipDeviceGetPCIBusId", <<Len(pci_bus_id), device.id>>)>>
       IN \E raw \in hipDeviceGetPCIBusId(pci_bus_id, Len(pci_bus_id), device.id) :
            /\ last' = Returned("get_device_pci_bus_id", 0, <<device>>, pci_bus_id,
                                calls, raw,
                                get_device_pci_bus_id_ret(raw.out, raw.code))
            /\ runtime' = raw.rt

\* i32::MAX
i32_MAX == 2147483647

get_device_by_pci_bus_id_ret(device_id, code) ==
    to_result(Device_new(device_id), code)

get_device_by_pci_bus_id(pci_bus_id) ==
    /\ Alive
    /\ LET device_id == i32_MAX
       IN \E raw \in hipDeviceGetByPCIBusId(device_id, pci_bus_id) :
            /\ last' = Returned("get_device_by_pci_bus_id", 0, <<pci_bus_id>>,
                                device_id,
                                <<Call("hipDeviceGetByPCIBusId", <<pci_bus_id>>)>>,
                                raw,
                                get_device_by_pci_bus_id_ret(raw.out, raw.code))
            /\ runtime' = raw.rt

\* The PCIBusId values a caller has at hand: a fresh one, and the one the
\* call before returned (tests: get_device_pci_bus_id(device).unwrap()
\* handed to get_device_by_pci_bus_id).
PciIdsAtHand ==
    {PCIBusId_new}
    \cup (IF last.op = "get_device_pci_bus_id" /\ last.status = "returned"
             /\ Result.ok
          THEN {Result.value}
          ELSE {})

(***************************************************************************)
(* runtime/safe.rs: the defensive initialize.                              *)
(***************************************************************************)
\* hipInit raising a fault instead of returning: no status code comes back,
\* so the local `code` is never assigned (held as 0 in the call's record).
Faulted ==
    [code |-> 0, out |-> <<>>, rt |-> runtime]

\* std::panic::catch_unwind(f): Ok(r) when the closure returns r, Err of the
\* payload when it unwinds.
catch_unwind(unwound, r) ==
    IF unwound THEN Err("payload") ELSE Ok(r)

\* .unwrap_or_else(|_| Err(HipError::from_kind(HipErrorKind::InvalidValue)))
safe_initialize_ret(caught) ==
    IF caught.ok THEN caught.value ELSE Err(HipError_from_kind("InvalidValue"))

\* runtime::safe::initialize.  sys::hipInit is a bindgen binding (build.rs),
\* declared extern "C": a fault that unwinds out of it is undefined
\* behaviour, so either catch_unwind catches it or the process dies.
safe_initialize ==
    /\ Alive
    /\ LET calls == <<Call("hipInit", <<0>>)>>
       IN \/ \E raw \in hipInit(0) :
               /\ last' = Returned("safe_initialize", 0, <<>>, <<>>, calls, raw,
                                   safe_initialize_ret(
                                       catch_unwind(FALSE, to_result(<<>>, raw.code))))
               /\ runtime' = raw.rt
          \/ /\ last' = [Returned("safe_initialize", 0, <<>>, <<>>, calls, Faulted,
                                   safe_initialize_ret(catch_unwind(TRUE, NoResult)))
                          EXCEPT !.fault = TRUE]
             /\ runtime' = Faulted.rt
          \/ /\ last' = [Aborted("safe_initialize", 0, <<>>, <<>>, calls, Faulted)
                          EXCEPT !.fault = TRUE, !.ub = FALSE]
             /\ runtime' = Faulted.rt

(***************************************************************************)
(* core/result.rs: the public constructors of HipError, called directly.   *)
(* They make no raw call; the record holds the HipError built.             *)
(***************************************************************************)
Built(op, args, error) ==
    Returned(op, 0, args, <<>>, <<>>, [code |-> 0, out |-> <<>>], error)

HipError_new_call(code) ==
    /\ Alive
    /\ last' = Built("HipError_new", <<code>>, HipError_new(code))
    /\ runtime' = runtime

HipError_from_kind_call(kind) ==
    /\ Alive
    /\ last' = Built("HipError_from_kind", <<kind>>, HipError_from_kind(kind))
    /\ runtime' = runtime

(***************************************************************************)
(* The two specifications.                                                 *)
(***************************************************************************)
NoCall ==
    [op |-> "none", thread |-> 0, code |-> 0, status |-> "returned",
     ub |-> FALSE, fault |-> FALSE, frame |-> Frame("none", <<>>, <<>>, <<>>, <<>>, Ok(<<>>))]

\* A runtime with n devices starts with device 0 active on every thread.
InitRuntime(mode) ==
    \E n \in 0..MaxDevices :
        runtime = [mode |-> mode, ndev |-> n,
                   active |-> [t \in Threads |-> IF n = 0 THEN -1 ELSE 0]]

Init ==
    /\ InitRuntime("documented")
    /\ last = NoCall

\* The arbitrary runtime keeps no state the model reads.
InitRaw ==
    /\ runtime = [mode |-> "arbitrary", ndev |-> 0,
                  active |-> [t \in Threads |-> -1]]
    /\ last = NoCall

Next ==
    \/ initialize
    \/ safe_initialize
    \/ get_device_count
    \/ \E t \in Threads : get_device(t)
    \/ \E t \in Threads, device \in Devices : set_device(t, device)
    \/ \E device \in Devices : device_compute_capability(device)
    \/ \E device \in Devices : device_total_mem(device)
    \/ runtime_get_version
    \/ \E device \in Devices : get_device_name(device)
    \/ \E device \in Devices : get_device_uuid(device)
    \/ \E attr \in P2PAttributes, src_device \in Devices, dst_device \in Devices :
          get_device_p2p_attribute(attr, src_device, dst_device)
    \/ \E device \in Devices : get_device_pci_bus_id(device)
    \/ \E pci_bus_id \in PciIdsAtHand : get_device_by_pci_bus_id(pci_bus_id)
    \/ \E code \in StatusCodes : HipError_new_call(code)
    \/ \E kind \in HipErrorKind : HipError_from_kind_call(kind)

Spec == Init /\ [][Next]_vars

SpecRaw == InitRaw /\ [][Next]_vars

(***************************************************************************)
(* Properties.                                                             *)
(***************************************************************************)
Returns == last.status = "returned"

\* The calls that hand to_result the value they were given or the slot as
\* the raw call left it, unconverted.
ValuePassed ==
    CASE last.op = "initialize" -> <<>>
      [] last.op = "set_device" -> Args[1]
      [] OTHER -> Slot

DirectOps ==
    {"initialize", "set_device", "get_device_count", "device_total_mem",
     "get_device_p2p_attribute", "get_device_pci_bus_id"}

\* C1: to_result on (v, c) is Ok(v), v unchanged, exactly when c = 0; for
\* every nonzero c it is Err of kind from_raw(c) and code c, holding no value.
C1_ToResult ==
    (Returns /\ last.op \in DirectOps) =>
        /\ Result.ok <=> last.code = 0
        /\ last.code = 0 => Result = [ok |-> TRUE, value |-> ValuePassed]
        /\ last.code # 0 =>
             Result = [ok |-> FALSE,
                            error |-> [kind |-> from_raw(last.code),
                                       code |-> last.code]]

C1_Witness ==
    /\ last.op = "device_total_mem"
    /\ Args[1].id = 99
    /\ last.code = 0
    /\ Slot = 1024
    /\ Result = [ok |-> TRUE, value |-> 1024]

\* The documented table of status codes.
KindTable ==
    {<<1, "InvalidValue">>, <<2, "MemoryAllocation">>, <<3, "NotInitialized">>,
     <<4, "Deinitialized">>, <<101, "InvalidDevice">>, <<301, "FileNotFound">>,
     <<600, "NotReady">>, <<801, "NotSupported">>}

\* C2: from_raw maps every nonzero code to one kind: the eight documented
\* codes to their kinds, every other nonzero code to Unknown.
C2_FromRawTotal ==
    (Returns /\ last.code # 0) =>
        /\ ~Result.ok
        /\ \A p \in KindTable : last.code = p[1] => Result.error.kind = p[2]
        /\ (\A p \in KindTable : last.code # p[1]) =>
             Result.error.kind = "Unknown"

C2_Witness ==
    /\ last.op = "initialize"
    /\ last.code = 600
    /\ Returns
    /\ Result.error.kind = "NotReady"

\* C3 (as claimed): whenever the raw call of an operation reports a nonzero
\* code c, the operation returns Err of kind from_raw(c) and code c, whatever
\* the raw call wrote to the slot.
C3_ErrorsPassThrough ==
    last.code # 0 =>
        /\ Returns
        /\ Result = [ok |-> FALSE,
                          error |-> [kind |-> from_raw(last.code),
                                     code |-> last.code]]

\* C3 holds of every operation but get_device_name.
C3_ExceptName ==
    last.op # "get_device_name" => C3_ErrorsPassThrough

\* The device arguments of the last call.
DeviceArgs ==
    CASE last.op \in {"set_device", "get_device_pci_bus_id"} -> {Args[1].id}
      [] last.op = "get_device_p2p_attribute" -> {Args[2].id, Args[3].id}
      [] OTHER -> {}

\* C4: with a runtime of n devices, set_device, get_device_pci_bus_id and
\* get_device_p2p_attribute given a device identifier outside [0, n) return
\* Err of kind InvalidDevice.
C4_OutOfRangeIsInvalidDevice ==
    (\E id \in DeviceArgs : id \notin 0..(runtime.ndev - 1)) =>
        /\ Returns
        /\ ~Result.ok
        /\ Result.error.kind = "InvalidDevice"

C4_Witness ==
    /\ runtime.ndev = 2
    /\ last.op = "set_device"
    /\ Args[1].id = 99
    /\ ~Result.ok
    /\ Result.error.kind = "InvalidDevice"

C6_PciRoundTrip ==
    [][/\ (last'.op = "get_device_pci_bus_id"
             /\ Args'[1].id \in 0..(runtime.ndev - 1))
          => (last'.status = "returned" /\ Result'.ok)
       /\ (/\ last.op = "get_device_pci_bus_id"
           /\ Args[1].id \in 0..(runtime.ndev - 1)
           /\ Result.ok
           /\ last'.op = "get_device_by_pci_bus_id"
           /\ Args'[1] = Result.value)
          => (/\ last'.status = "returned"
              /\ Result'.ok
              /\ Result'.value.id = Args[1].id)]_vars

C6_Witness ==
    /\ runtime.ndev = 2
    /\ last.op = "get_device_by_pci_bus_id"
    /\ Args[1] # PCIBusId_new
    /\ Result.ok
    /\ Result.value.id = 1

\* A u64 below 2^31 as the model holds it.
U64(n) ==
    [n |-> n, wraps |-> 0]

\* C7: decode_hip_version takes major*1_000_000 + minor*1_000 + patch, with
\* minor and patch below 1000 and the whole within an i32, to
\* (major, minor, patch), and the sentinel -1 to (0, 0, 0).
C7_DecodeVersion ==
    (last.op = "runtime_get_version" /\ last.code = 0) =>
        /\ Returns /\ Result.ok
        /\ \A major \in 0..2147, minor \in VersionMinors, patch \in VersionPatches :
             (FitsI32(major, minor, patch)
                /\ Slot = major * 1000000 + minor * 1000 + patch)
             => Result.value =
                  [major |-> U64(major), minor |-> U64(minor), patch |-> U64(patch)]
        /\ Slot = -1 =>
             Result.value = [major |-> U64(0), minor |-> U64(0), patch |-> U64(0)]

C7_Witness ==
    /\ last.op = "runtime_get_version"
    /\ last.code = 0
    /\ Slot = 9002005
    /\ Result.value = [major |-> U64(9), minor |-> U64(2), patch |-> U64(5)]

\* C8: get_device_uuid turns each of the 16 signed raw bytes b into the
\* unsigned byte b mod 256, in the same position.
C8_UuidBytes ==
    (last.op = "get_device_uuid" /\ last.code = 0) =>
        /\ Returns /\ Result.ok
        /\ Len(Result.value.bytes) = 16
        /\ \A k \in 1..16 : Result.value.bytes[k] = Slot[k] % 256

C8_Witness ==
    /\ last.op = "get_device_uuid"
    /\ last.code = 0
    /\ Slot[1] = -16 /\ Result.value.bytes[1] = 240
    /\ Slot[16] = -1 /\ Result.value.bytes[16] = 255

\* C9: for every attribute kind and every device d,
\* get_device_p2p_attribute(attr, d, d) returns Err.
C9_P2PSameDeviceFails ==
    (last.op = "get_device_p2p_attribute" /\ Args[2] = Args[3]) =>
        /\ Returns
        /\ ~Result.ok

C9_Witness ==
    /\ runtime.ndev = 2
    /\ last.op = "get_device_p2p_attribute"
    /\ Args[1] = "NativeAtomicSupported"
    /\ Args[2].id = 1
    /\ Args[3].id = 1
    /\ ~Result.ok

\* C10 (as claimed): in get_device_name a NUL lies inside the 64-byte buffer
\* when it is converted, whatever the raw call wrote within the 64 bytes it
\* was given; the conversion never reads past the buffer, and the name
\* returned has at most 63 bytes.
C10_NameNulTerminated ==
    last.op = "get_device_name" =>
        /\ \E k \in 1..buffer_size : Slot[k] = 0
        /\ ~last.ub
        /\ (Returns /\ Result.ok) => String_len(Result.value) <= 63

\* C11 (as claimed): the defensive initialize returns Err of kind
\* InvalidValue and code 1 when the native initialize call raises a fault,
\* and otherwise exactly what the plain initialize returns for the same
\* status code: Ok(()) for 0, Err of kind from_raw(c) and code c for c # 0.
C11_DefensiveInitialize ==
    last.op = "safe_initialize" =>
        /\ Returns
        /\ last.fault =>
             Result = [ok |-> FALSE,
                       error |-> [kind |-> "InvalidValue", code |-> 1]]
        /\ ~last.fault =>
             /\ Result = initialize_ret(last.code)
             /\ last.code = 0 => Result = [ok |-> TRUE, value |-> <<>>]
             /\ last.code # 0 =>
                  Result = [ok |-> FALSE,
                            error |-> [kind |-> from_raw(last.code),
                                       code |-> last.code]]

\* C11 holds of every defensive initialize that returns: the fault is
\* converted whenever catch_unwind does catch it.
C11_WhenReturned ==
    Returns => C11_DefensiveInitialize

\* A successful set_device on thread t is the call the step made.
SetOn(t) ==
    /\ last'.op = "set_device"
    /\ last'.thread = t
    /\ last'.status = "returned"
    /\ Result'.ok

\* One call, seen from every thread: a successful set_device(d) on t makes d
\* the active device of t; any other call, and any call on another thread,
\* leaves the active device of t as it was; a successful get_device on t
\* returns the active device of t.
C12_Step ==
    /\ \A t \in Threads :
         /\ SetOn(t) => runtime'.active[t] = Args'[1].id
         /\ ~SetOn(t) => runtime'.active[t] = runtime.active[t]
    /\ (last'.op = "get_device" /\ last'.status = "returned" /\ Result'.ok) =>
         /\ Result'.value.id = runtime.active[last'.thread]
         /\ Result'.value.id = runtime'.active[last'.thread]

\* C12: under every interleaving of calls from several threads, a
\* successful get_device on thread t returns the runtime's active device of
\* t, which is the device of the last successful set_device on t; a
\* set_device on another thread never changes it.
C12_NoSharedActiveDevice ==
    [][C12_Step]_vars

\* Thread 2 has made device 1 its own, and get_device on thread 1 still
\* returns device 0.
C12_Witness ==
    /\ last.op = "get_device"
    /\ last.thread = 1
    /\ Returns
    /\ Result.ok
    /\ Result.value.id = 0
    /\ runtime.active[2] = 1

\* The operations whose output slot has a sentinel, and the sentinel.
SentinelOps ==
    {"get_device", "device_compute_capability", "runtime_get_version",
     "get_device_p2p_attribute", "get_device_name", "get_device_uuid",
     "get_device_pci_bus_id", "get_device_by_pci_bus_id"}

Sentinel(op) ==
    CASE op = "get_device" -> -1
      [] op = "device_compute_capability" -> <<-1, -1>>
      [] op = "runtime_get_version" -> -1
      [] op = "get_device_p2p_attribute" -> -1
      [] op = "get_device_name" -> [k \in 1..64 |-> 0]
      [] op = "get_device_uuid" -> [k \in 1..16 |-> 0]
      [] op = "get_device_pci_bus_id" -> [k \in 1..PCIBusIdLen |-> 0]
      [] op = "get_device_by_pci_bus_id" -> 2147483647

\* The value the last call owes to_result: the slot as the raw call left
\* it, in the type the operation returns.
SlotValue ==
    CASE last.op \in {"get_device", "get_device_by_pci_bus_id"} ->
           Device_new(Slot)
      [] last.op = "device_compute_capability" ->
           Version_new(as_u64(Slot[1]), as_u64(Slot[2]), as_u64(0))
      [] last.op = "runtime_get_version" -> decode_hip_version(Slot)
      [] last.op = "get_device_name" -> to_string_lossy(CStrOf(Slot))
      [] last.op = "safe_initialize" -> <<>>
      [] OTHER -> ValuePassed

\* The Result the last call owes its caller: to_result of the slot value and
\* the status code (get_device_uuid maps the bytes of an Ok to a Uuid).
Translated ==
    LET r == to_result(SlotValue, last.code)
    IN IF last.op = "get_device_uuid" /\ r.ok
       THEN Ok(Uuid_from_bytes([k \in 1..16 |-> as_u8(r.value[k])]))
       ELSE r

\* C13 (as claimed): every operation prepares its output slot with its
\* sentinel (-1, all-zero, i32::MAX), then makes exactly one raw call, and,
\* that call having returned a status code, returns to_result of the slot
\* value and of that code.
C13_PrepareCallTranslate ==
    last.op \notin {"none", "HipError_new", "HipError_from_kind"} =>
        /\ last.op \in SentinelOps => Prepared = Sentinel(last.op)
        /\ Len(Calls) = 1
        /\ ~last.fault => (Returns /\ Result = Translated)

\* C13 holds of every call whose conversion stayed inside the slot.
C13_WhenDefined ==
    ~last.ub => C13_PrepareCallTranslate

\* The HipError the last call built or returned in an Err, if any.
ErrorsOut ==
    CASE last.op \in {"HipError_new", "HipError_from_kind"} -> {Result}
      [] last.op # "none" /\ Returns /\ ~Result.ok -> {Result.error}
      [] OTHER -> {}

\* C14: kind and code of a HipError agree, kind = from_raw(code), whether it
\* was built by HipError::new(c) or by HipError::from_kind(k); from_kind(k)
\* has the code `k as u32` (999 for Unknown), from_raw of which is k again,
\* so it equals new(k as u32); every error an API operation returns has a
\* nonzero code.
C14_KindAgreesWithCode ==
    /\ \A e \in ErrorsOut : e.kind = from_raw(e.code)
    /\ last.op = "HipError_new" => Result.code = Args[1]
    /\ last.op = "HipError_from_kind" =>
         /\ Result.kind = Args[1]
         /\ from_raw(Result.code) = Args[1]
         /\ Result.code # 0
         /\ Args[1] = "Unknown" => Result.code = 999
         /\ Result = [kind |-> from_raw(Result.code), code |-> Result.code]
    /\ last.op \notin {"HipError_new", "HipError_from_kind"} =>
         \A e \in ErrorsOut : e.code # 0

C14_Witness ==
    /\ last.op = "HipError_from_kind"
    /\ Args[1] = "Unknown"
    /\ Result = [kind |-> "Unknown", code |-> 999]

====
